---- MODULE Spec2Model ----
(***************************************************************************)
(* Model of the Hangman game engine (src/src/game.py, class Game).         *)
(*                                                                         *)
(* A Python str is modelled as a sequence of one-character strings, so     *)
(* "ab" is <<"a", "b">>.  An Optional[str] is a record with a `present`    *)
(* flag: None is the record whose flag is FALSE.                           *)
(***************************************************************************)
EXTENDS Integers, Sequences, FiniteSets, TLC

(* ---------------------------------------------------------------------- *)
(* Bounds of the model                                                     *)
(* ---------------------------------------------------------------------- *)
MaxTargetLen == 2
MaxLives == 1
MaxCalls == 3
MaxPairCalls == 2
MaxGets == 2
MaxTimeout == 2
MaxTyped == 2
MaxIdleCalls == 1

(* ---------------------------------------------------------------------- *)
(* Characters and the str methods the engine uses                          *)
(* ---------------------------------------------------------------------- *)
LowerLetters == {"a", "b", "q", "u", "i", "t"}
UpperLetters == {"A", "B", "Q", "U", "I", "T"}
Whitespace == {" "}
Placeholder == "_"

\* str.isalpha() on one character
IsAlpha(ch) == ch \in LowerLetters \cup UpperLetters

\* str.lower() on one character
LowerChar(ch) ==
    CASE ch = "A" -> "a"
      [] ch = "B" -> "b"
      [] ch = "Q" -> "q"
      [] ch = "U" -> "u"
      [] ch = "I" -> "i"
      [] ch = "T" -> "t"
      [] OTHER -> ch

\* str.lower()
Lower(s) == [i \in 1..Len(s) |-> LowerChar(s[i])]

RECURSIVE LStrip(_)
LStrip(s) ==
    IF s # <<>> /\ Head(s) \in Whitespace THEN LStrip(Tail(s)) ELSE s

RECURSIVE RStrip(_)
RStrip(s) ==
    IF s # <<>> /\ s[Len(s)] \in Whitespace
    THEN RStrip(SubSeq(s, 1, Len(s) - 1))
    ELSE s

\* str.strip()
Strip(s) == RStrip(LStrip(s))

\* set(valid_chars)
CharSet(s) == {s[i] : i \in 1..Len(s)}

Min(a, b) == IF a <= b THEN a ELSE b

(* ---------------------------------------------------------------------- *)
(* Inputs                                                                  *)
(* ---------------------------------------------------------------------- *)
TargetChars == {"a", "b", "A", "!", "_"}

Targets == UNION {[1..n -> TargetChars] : n \in 1..MaxTargetLen}

ValidCharsChoices == {<<"a", "b">>, <<"a", "B", " ", "!", "_">>}

MaskingMode == {"WORD", "PHRASE"}

None == [present |-> FALSE, text |-> <<>>]
Some(s) == [present |-> TRUE, text |-> s]

Guesses ==
    {None} \cup
    {Some(s) : s \in {<<>>, <<" ">>, <<"a">>, <<" ", "A", " ">>,
                      <<"b">>, <<"_">>, <<"!">>, <<"a", "b">>,
                      <<"q", "u", "i", "t">>,
                      <<" ", "Q", "u", "I", "T", " ">>}}

(* ---------------------------------------------------------------------- *)
(* State                                                                   *)
(* ---------------------------------------------------------------------- *)
VARIABLES
    target_raw,     \* Game.target_raw
    target,         \* Game.target
    masking_mode,   \* Game.masking_mode
    lives,          \* Game.lives
    valid_chars,    \* Game._valid_chars
    guessed,        \* Game._guessed
    reveal_state,   \* Game._reveal_state
    calls,          \* number of make_guess calls made so far
    guess,          \* argument of the last make_guess call
    prev,           \* lives, mask, guessed set and submitted set before that call
    result,         \* GuessResult returned by the last make_guess call
    submitted,      \* characters that passed validation in some call so far
    timeouts,       \* number of make_guess(None) calls made so far
    missed,         \* characters that revealed nothing when first submitted
    classified,     \* number of calls that returned correct or incorrect
    cli_pc,         \* where ui_cli.main is
    ctor,           \* arguments Game(...) was called with
    error,          \* exception raised by Game(...), "none" when the object exists
    twin,           \* a second Game object, driven alongside the first
    query,          \* what the last game.is_finished() call did
    buffer,         \* TimedInput._buffer
    input_received, \* TimedInput._input_received
    get_pc,         \* where the main thread is in TimedInput.get
    remaining,      \* countdown iterations TimedInput.get has left
    gets,           \* number of TimedInput.get calls started so far
    readers,        \* the _reader thread of each get call
    typed,          \* lines and end-of-files the terminal has delivered
    ret,            \* value the last TimedInput.get call returned
    heard,          \* what readers received during the current get call
    stale_wrote     \* an earlier call's reader wrote during a later call

game_vars == <<target_raw, target, masking_mode, lives, valid_chars, guessed,
               reveal_state, ctor, error>>

history_vars == <<guess, prev, submitted, timeouts, missed, classified>>

timed_vars == <<buffer, input_received, get_pc, remaining, gets, readers,
                typed, ret, heard, stale_wrote>>

engine_vars == <<game_vars, calls, result, history_vars, twin, query, cli_pc>>

vars == <<engine_vars, timed_vars>>

(* ---------------------------------------------------------------------- *)
(* Game                                                                    *)
(* ---------------------------------------------------------------------- *)
\* Game._mask with the else branch missing
MaskDropsNonAlpha(text) ==
    [i \in 1..Cardinality({j \in 1..Len(text) : IsAlpha(text[j])}) |-> Placeholder]

\* Game._mask with the isalpha test missing
MaskEverything(text) == [i \in 1..Len(text) |-> Placeholder]

\* Game._mask
Mask(text) ==
    [i \in 1..Len(text) |-> IF IsAlpha(text[i]) THEN Placeholder ELSE text[i]]

\* Game._is_won testing only for a placeholder left in the mask
IsWonNoPlaceholder(t, r) == \A i \in 1..Len(r) : r[i] # Placeholder

\* Game._is_won
IsWon(t, r) ==
    \A i \in 1..Min(Len(t), Len(r)) : ~(IsAlpha(t[i]) /\ r[i] = Placeholder)

\* Game._is_lost with the last life counted as lost
IsLostAtOne(l) == l <= 1

\* Game._is_lost with < in place of <=
IsLostStrict(l) == l < 0

\* Game._is_lost
IsLost(l) == l <= 0

\* Game._apply_reveal stopping at the first occurrence
ApplyRevealFirstOnly(t, r, letter) ==
    IF Len(letter) # 1
    THEN [reveal |-> r, count |-> 0]
    ELSE LET l == LowerChar(letter[1])
             hits == {i \in 1..Len(t) : t[i] = l /\ r[i] = Placeholder}
             first == IF hits = {} THEN {}
                      ELSE {CHOOSE i \in hits : \A j \in hits : i <= j}
         IN  [reveal |-> [i \in 1..Len(r) |-> IF i \in first THEN l ELSE r[i]],
              count |-> Cardinality(first)]

\* Game._apply_reveal counting the positions but never writing the mask
ApplyRevealCountOnly(t, r, letter) ==
    IF Len(letter) # 1
    THEN [reveal |-> r, count |-> 0]
    ELSE LET l == LowerChar(letter[1])
             hits == {i \in 1..Len(t) : t[i] = l /\ r[i] = Placeholder}
         IN  [reveal |-> r, count |-> Cardinality(hits)]

\* Game._apply_reveal: the new mask and the number of positions newly revealed
ApplyReveal(t, r, letter) ==
    IF Len(letter) # 1
    THEN [reveal |-> r, count |-> 0]
    ELSE LET l == LowerChar(letter[1])
             hits == {i \in 1..Len(t) : t[i] = l /\ r[i] = Placeholder}
         IN  [reveal |-> [i \in 1..Len(r) |-> IF i \in hits THEN l ELSE r[i]],
              count |-> Cardinality(hits)]

\* GuessResult
GuessResult(o, r, l, t) ==
    [outcome |-> o, revealed |-> r, remaining_lives |-> l,
     won |-> IsWon(t, r), lost |-> IsLost(l)]

NoResult ==
    [outcome |-> "none", revealed |-> <<>>, remaining_lives |-> 0,
     won |-> FALSE, lost |-> FALSE]

\* Game.__init__, default of the lives parameter
DefaultLives == 6

NoLives == [present |-> FALSE, value |-> 0]
SomeLives(n) == [present |-> TRUE, value |-> n]

\* the values Game(...) is given as target: None, "" and the targets
CtorTargets == {None} \cup {Some(s) : s \in Targets \cup {<<>>}}

\* the values Game(...) is given as lives: left out, or a number
CtorLives == {NoLives} \cup {SomeLives(n) : n \in 0..MaxLives}

\* Game.__init__, the validation with the emptiness test missing
CtorRejectsNonStr(t) == ~t.present

\* Game.__init__, `if not target or not isinstance(target, str)`
CtorRejects(t) == t.text = <<>> \/ ~t.present

\* Game.__init__ masking everything in PHRASE mode
NewGameModeMasks(t, l, m, vc) ==
    IF CtorRejects(t)
    THEN [error |-> "ValueError", target_raw |-> <<>>, target |-> <<>>,
          masking_mode |-> m, lives |-> 0, valid_chars |-> {},
          guessed |-> {}, reveal_state |-> <<>>]
    ELSE [error |-> "none", target_raw |-> t.text, target |-> Lower(t.text),
          masking_mode |-> m,
          lives |-> IF l.present THEN l.value ELSE DefaultLives,
          valid_chars |-> CharSet(vc), guessed |-> {},
          reveal_state |-> IF m = "PHRASE" THEN MaskEverything(Lower(t.text))
                           ELSE Mask(Lower(t.text))]

\* Game.__init__ leaving the lives at the default
NewGameDefaultLives(t, l, m, vc) ==
    IF CtorRejects(t)
    THEN [error |-> "ValueError", target_raw |-> <<>>, target |-> <<>>,
          masking_mode |-> m, lives |-> 0, valid_chars |-> {},
          guessed |-> {}, reveal_state |-> <<>>]
    ELSE [error |-> "none", target_raw |-> t.text, target |-> Lower(t.text),
          masking_mode |-> m, lives |-> DefaultLives,
          valid_chars |-> CharSet(vc), guessed |-> {},
          reveal_state |-> Mask(Lower(t.text))]

\* Game.__init__: the error raised, and the fields of the object when none is
NewGame(t, l, m, vc) ==
    IF CtorRejects(t)
    THEN [error |-> "ValueError", target_raw |-> <<>>, target |-> <<>>,
          masking_mode |-> m, lives |-> 0, valid_chars |-> {},
          guessed |-> {}, reveal_state |-> <<>>]
    ELSE [error |-> "none", target_raw |-> t.text, target |-> Lower(t.text),
          masking_mode |-> m,
          lives |-> IF l.present THEN l.value ELSE DefaultLives,
          valid_chars |-> CharSet(vc), guessed |-> {},
          reveal_state |-> Mask(Lower(t.text))]

\* the Game object the variables hold
Self ==
    [error |-> error, target_raw |-> target_raw, target |-> target,
     masking_mode |-> masking_mode, lives |-> lives,
     valid_chars |-> valid_chars, guessed |-> guessed,
     reveal_state |-> reveal_state]

\* Game(...) for some arguments
GameInit ==
    \E t \in CtorTargets, l \in CtorLives, m \in MaskingMode,
       vc \in ValidCharsChoices :
        /\ ctor = [target |-> t, lives |-> l, masking_mode |-> m,
                   valid_chars |-> vc]
        /\ LET g == NewGame(t, l, m, vc) IN
              /\ error = g.error
              /\ target_raw = g.target_raw
              /\ target = g.target
              /\ masking_mode = g.masking_mode
              /\ lives = g.lives
              /\ valid_chars = g.valid_chars
              /\ guessed = g.guessed
              /\ reveal_state = g.reveal_state
        /\ calls = 0
        /\ result = NoResult

NoTwin == [kind |-> "none"]
NoQuery == [called |-> FALSE, raised |-> FALSE, value |-> FALSE]

\* TimedInput.__init__, and no get call made yet
TimedInit ==
    /\ buffer = None
    /\ input_received = FALSE
    /\ get_pc = "idle"
    /\ remaining = 0
    /\ gets = 0
    /\ readers = [r \in 1..MaxGets |-> [st |-> "unstarted", val |-> None]]
    /\ typed = 0
    /\ ret = None
    /\ heard = [countdown |-> None, deadline |-> FALSE]
    /\ stale_wrote = FALSE

\* no make_guess call made yet
NoHistory ==
    /\ guess = None
    /\ prev = [lives |-> lives, reveal |-> reveal_state, guessed |-> {},
               submitted |-> {}]
    /\ submitted = {}
    /\ timeouts = 0
    /\ missed = {}
    /\ classified = 0

\* Game.__init__
Init ==
    /\ GameInit
    /\ NoHistory
    /\ twin = NoTwin
    /\ query = NoQuery
    /\ cli_pc = "start"
    /\ TimedInit

\* make_guess, the guess stripped but not lowercased
NormalizeNoLower(s) == Strip(s)

\* make_guess, the guess lowercased but not stripped
NormalizeNoStrip(s) == Lower(s)

\* make_guess, `g = guess.strip().lower()`
Normalize(s) == Lower(Strip(s))

\* make_guess, the validation test with the alphabet check missing
IsInvalidLenOnly(g, valid) == Len(g) # 1

\* make_guess, `len(g) != 1 or g not in self._valid_chars`
IsInvalid(g, valid) == Len(g) # 1 \/ g[1] \notin valid

\* make_guess, the repeat test always failing
IsRepeatNever(g, done) == FALSE

\* make_guess, `g in self._guessed`
IsRepeat(g, done) == g[1] \in done

\* make_guess, timeout branch leaving the lives alone
TimeoutLivesFree(l) == l

\* make_guess, timeout branch awarding a life
TimeoutLivesGain(l) == l + 1

\* make_guess, `self.lives -= 1` of the timeout branch
TimeoutLives(l) == l - 1

\* make_guess, a correct guess costing a life too
NewGuessLivesAlways(l, revealed_now) == l - 1

\* make_guess, an incorrect guess costing nothing
NewGuessLivesNever(l, revealed_now) == l

\* make_guess, lives after a new valid guess
NewGuessLives(l, revealed_now) == IF revealed_now > 0 THEN l ELSE l - 1

\* make_guess, a guess that reveals nothing reported under its own label
NewGuessOutcomeMiss(revealed_now) ==
    IF revealed_now > 0 THEN "correct" ELSE "wrong"

\* make_guess, outcome of a new valid guess
NewGuessOutcome(revealed_now) ==
    IF revealed_now > 0 THEN "correct" ELSE "incorrect"

\* Game.make_guess on the object `self`: the fields it assigns and the
\* GuessResult it returns
make_guess(self, gs) ==
    IF ~gs.present
    THEN LET l == TimeoutLives(self.lives) IN
         [lives |-> l, guessed |-> self.guessed,
          reveal_state |-> self.reveal_state,
          result |-> GuessResult("timeout", self.reveal_state, l, self.target)]
    ELSE LET g == Normalize(gs.text) IN
         IF IsInvalid(g, self.valid_chars)
         THEN [lives |-> self.lives, guessed |-> self.guessed,
               reveal_state |-> self.reveal_state,
               result |-> GuessResult("invalid", self.reveal_state,
                                      self.lives, self.target)]
         ELSE IF IsRepeat(g, self.guessed)
         THEN [lives |-> self.lives, guessed |-> self.guessed,
               reveal_state |-> self.reveal_state,
               result |-> GuessResult("repeat", self.reveal_state,
                                      self.lives, self.target)]
         ELSE LET ar == ApplyReveal(self.target, self.reveal_state, g)
                  l == NewGuessLives(self.lives, ar.count)
              IN  [lives |-> l, guessed |-> self.guessed \cup {g[1]},
                   reveal_state |-> ar.reveal,
                   result |-> GuessResult(NewGuessOutcome(ar.count),
                                          ar.reveal, l, self.target)]

\* the characters of a guess that passed validation
Validated(gs, valid) ==
    IF gs.present /\ ~IsInvalid(Normalize(gs.text), valid)
    THEN {Normalize(gs.text)[1]}
    ELSE {}

\* game.make_guess(gs) on the object the variables hold
Apply(gs) ==
    /\ error = "none"
    /\ \E r \in {make_guess(Self, gs)} :
       /\ calls' = calls + 1
       /\ lives' = r.lives
       /\ guessed' = r.guessed
       /\ reveal_state' = r.reveal_state
       /\ result' = r.result
       /\ UNCHANGED <<target_raw, target, masking_mode, valid_chars, ctor, error>>

\* game.make_guess(gs), one of at most MaxCalls calls
Assign(gs) ==
    /\ calls < MaxCalls
    /\ Apply(gs)

\* those of the validated characters v that are submitted for the first time
\* and find no position of the target still showing the placeholder
Misses(v) ==
    {c \in v \ submitted :
        ~\E i \in 1..Len(target) :
            target[i] = c /\ reveal_state[i] = Placeholder}

\* what the caller of make_guess(gs) has seen
Record(gs) ==
    /\ guess' = gs
    /\ prev' = [lives |-> lives, reveal |-> reveal_state, guessed |-> guessed,
                submitted |-> submitted]
    /\ \E v \in {Validated(gs, valid_chars)} :
          /\ submitted' = submitted \cup v
          /\ missed' = missed \cup Misses(v)
    /\ timeouts' = IF gs.present THEN timeouts ELSE timeouts + 1
    /\ classified' = IF result'.outcome \in {"correct", "incorrect"}
                     THEN classified + 1 ELSE classified

\* Game.make_guess
MakeGuess(gs) ==
    /\ Assign(gs)
    /\ Record(gs)
    /\ UNCHANGED <<twin, query, cli_pc, timed_vars>>

Next == \E gs \in Guesses : MakeGuess(gs)

Spec == Init /\ [][Next]_vars

(* ---------------------------------------------------------------------- *)
(* Two Game objects driven side by side, and the is_finished query         *)
(* ---------------------------------------------------------------------- *)
\* letters and their capitals
CasePairs ==
    {<<"a", "A">>, <<"b", "B">>, <<"q", "Q">>, <<"u", "U">>, <<"i", "I">>,
     <<"t", "T">>}

SameUpToCase(c, d) == c = d \/ <<c, d>> \in CasePairs \/ <<d, c>> \in CasePairs

\* the targets that differ from t in the case of letters only
CaseVariants(t) ==
    {u \in Targets :
        Len(u) = Len(t) /\ \A i \in 1..Len(t) : SameUpToCase(u[i], t[i])}

\* guesses that differ from each other only in the case of letters and in
\* leading or trailing whitespace, the first of each tuple stripped and in
\* lower case
GuessVariantClasses ==
    {<<<<"a">>, <<"A">>, <<" ", "A", " ">>>>,
     <<<<"b">>, <<"B", " ">>>>,
     <<<<"!">>, <<" ", "!">>>>,
     <<<<"_">>>>,
     <<<<>>, <<" ">>>>,
     <<<<"q", "u", "i", "t">>, <<" ", "Q", "u", "I", "T", " ">>>>}

\* a guess as the first object receives it and as the second does
GuessVariantPairs ==
    {<<None, None>>} \cup
    UNION {{<<Some(c[1]), Some(c[i])>> : i \in 1..Len(c)} :
              c \in GuessVariantClasses}

\* a Game object and the GuessResult of its last call
TwinOf(kind, g, res, differed) ==
    [kind |-> kind, differed |-> differed, error |-> g.error,
     target_raw |-> g.target_raw, target |-> g.target,
     masking_mode |-> g.masking_mode, lives |-> g.lives,
     valid_chars |-> g.valid_chars, guessed |-> g.guessed,
     reveal_state |-> g.reveal_state, result |-> res]

\* the second object is built from a target differing in case only ("case"),
\* or from the same target under the other masking mode ("mode")
TwinInit ==
    \/ \E u \in CaseVariants(ctor.target.text) :
          twin = TwinOf("case",
                        NewGame(Some(u), ctor.lives, ctor.masking_mode,
                                ctor.valid_chars),
                        NoResult, u # ctor.target.text)
    \/ \E m \in MaskingMode \ {ctor.masking_mode} :
          twin = TwinOf("mode",
                        NewGame(ctor.target, ctor.lives, m, ctor.valid_chars),
                        NoResult, FALSE)

InitEngine ==
    /\ GameInit
    /\ NoHistory
    /\ TwinInit
    /\ query = NoQuery
    /\ cli_pc = "start"
    /\ TimedInit

\* game.make_guess(g1) and twin.make_guess(g2)
PairGuess(g1, g2) ==
    /\ calls < MaxPairCalls
    /\ twin.kind = "mode" => g1 = g2
    /\ Assign(g1)
    /\ \E r \in {make_guess(twin, g2)} :
          twin' = [twin EXCEPT !.lives = r.lives, !.guessed = r.guessed,
                               !.reveal_state = r.reveal_state,
                               !.result = r.result,
                               !.differed = @ \/ g1 # g2]
    /\ UNCHANGED <<history_vars, query, cli_pc, timed_vars>>

\* the names an attribute lookup on a Game object finds
GameAttributes ==
    {"target_raw", "target", "masking_mode", "lives", "_valid_chars",
     "_guessed", "_reveal_state", "guessed", "reveal", "remaining_lives",
     "_mask", "_is_won", "_is_lost", "_apply_reveal", "make_guess"}

\* game.is_finished(): class Game defines no such attribute, the lookup
\* raises AttributeError
CallIsFinished ==
    /\ error = "none"
    /\ "is_finished" \notin GameAttributes
    /\ query' = [called |-> TRUE, raised |-> TRUE, value |-> FALSE]
    /\ UNCHANGED <<game_vars, calls, result, history_vars, twin, timed_vars>>

NextEngine == \E p \in GuessVariantPairs : PairGuess(p[1], p[2])

SpecEngine == InitEngine /\ [][NextEngine]_vars

NextQuery == Next \/ (CallIsFinished /\ UNCHANGED cli_pc)

SpecQuery == Init /\ [][NextQuery]_vars

(* ---------------------------------------------------------------------- *)
(* TimedInput (src/src/providers.py): the main thread runs get, every get  *)
(* call starts a daemon thread running _reader; assignments are the atomic *)
(* steps                                                                   *)
(* ---------------------------------------------------------------------- *)
Lines == {<<"a">>, <<"b">>}

\* the reader threads blocked in input()
Blocked == {r \in 1..MaxGets : readers[r].st = "blocked"}

\* the thread the terminal serves next: the one that has waited longest
Oldest(S) == CHOOSE r \in S : \A q \in S : r <= q

\* a get call has begun and not yet returned
InCall == get_pc # "idle"

\* get, `self._buffer = None`
GetBegin(t) ==
    /\ get_pc = "idle"
    /\ gets < MaxGets
    /\ gets' = gets + 1
    /\ buffer' = None
    /\ remaining' = t
    /\ get_pc' = "reset"
    /\ heard' = [countdown |-> None, deadline |-> FALSE]
    /\ UNCHANGED <<input_received, readers, typed, ret, stale_wrote,
                   engine_vars>>

\* get, `self._input_received = False`
GetResetFlag ==
    /\ get_pc = "reset"
    /\ input_received' = FALSE
    /\ get_pc' = "spawn"
    /\ UNCHANGED <<buffer, remaining, gets, readers, typed, ret, heard,
                   stale_wrote,
                   engine_vars>>

\* get, `thread.start()`: the new thread blocks in input()
GetSpawn ==
    /\ get_pc = "spawn"
    /\ readers' = [readers EXCEPT ![gets] = [st |-> "blocked", val |-> None]]
    /\ get_pc' = "loop"
    /\ UNCHANGED <<buffer, input_received, remaining, gets, typed, ret, heard,
                   stale_wrote,
                   engine_vars>>

\* get, one iteration of the countdown loop
GetCountdown ==
    /\ get_pc = "loop"
    /\ IF remaining = 0 \/ input_received
       THEN get_pc' = "grace" /\ UNCHANGED remaining
       ELSE remaining' = remaining - 1 /\ UNCHANGED get_pc
    /\ UNCHANGED <<buffer, input_received, gets, readers, typed, ret, heard,
                   stale_wrote,
                   engine_vars>>

\* get, `if not self._input_received: time.sleep(0.1)`
GetGrace ==
    /\ get_pc = "grace"
    /\ get_pc' = "check"
    /\ UNCHANGED <<buffer, input_received, remaining, gets, readers, typed,
                   ret, heard, stale_wrote,
                   engine_vars>>

\* get, `if self._input_received:` and, when it is not set, `return None`
GetCheck ==
    /\ get_pc = "check"
    /\ IF input_received
       THEN get_pc' = "read" /\ UNCHANGED ret
       ELSE get_pc' = "idle" /\ ret' = None
    /\ UNCHANGED <<buffer, input_received, remaining, gets, readers, typed,
                   heard, stale_wrote,
                   engine_vars>>

\* get, `return self._buffer`
GetReturn ==
    /\ get_pc = "read"
    /\ ret' = buffer
    /\ get_pc' = "idle"
    /\ UNCHANGED <<buffer, input_received, remaining, gets, readers, typed,
                   heard, stale_wrote,
                   engine_vars>>

\* _reader, input() returns a line to the thread that has waited longest
ReaderReceive(line) ==
    /\ typed < MaxTyped
    /\ Blocked # {}
    /\ typed' = typed + 1
    /\ readers' = [readers EXCEPT
                     ![Oldest(Blocked)] = [st |-> "got", val |-> Some(line)]]
    /\ heard' =
         [countdown |-> IF get_pc \in {"reset", "spawn", "loop"}
                           /\ ~heard.countdown.present
                        THEN Some(line) ELSE heard.countdown,
          deadline |-> heard.deadline
                       \/ get_pc \in {"reset", "spawn", "loop", "grace", "check"}]
    /\ UNCHANGED <<buffer, input_received, get_pc, remaining, gets, ret,
                   stale_wrote,
                   engine_vars>>

\* _reader, input() raises EOFError
ReaderEof ==
    /\ typed < MaxTyped
    /\ Blocked # {}
    /\ typed' = typed + 1
    /\ readers' = [readers EXCEPT ![Oldest(Blocked)] = [st |-> "got", val |-> None]]
    /\ UNCHANGED <<buffer, input_received, get_pc, remaining, gets, ret, heard,
                   stale_wrote,
                   engine_vars>>

\* _reader, `self._buffer = input(prompt)`, or `self._buffer = None` on EOF
ReaderWriteBuffer(r) ==
    /\ readers[r].st = "got"
    /\ buffer' = readers[r].val
    /\ readers' = [readers EXCEPT ![r].st = "wrote"]
    /\ stale_wrote' = (stale_wrote \/ (r < gets /\ InCall))
    /\ UNCHANGED <<input_received, get_pc, remaining, gets, typed, ret, heard,
                   engine_vars>>

\* _reader, `self._input_received = True`
ReaderWriteFlag(r) ==
    /\ readers[r].st = "wrote"
    /\ input_received' = TRUE
    /\ readers' = [readers EXCEPT ![r].st = "done"]
    /\ stale_wrote' = (stale_wrote \/ (r < gets /\ InCall))
    /\ UNCHANGED <<buffer, get_pc, remaining, gets, typed, ret, heard,
                   engine_vars>>

\* the Game the command line built before it made the TimedInput
InitTimed ==
    /\ ctor = [target |-> Some(<<"a">>), lives |-> NoLives,
               masking_mode |-> "WORD", valid_chars |-> <<"a", "b">>]
    /\ Init

NextTimed ==
    \/ \E t \in 1..MaxTimeout : GetBegin(t)
    \/ GetResetFlag
    \/ GetSpawn
    \/ GetCountdown
    \/ GetGrace
    \/ GetCheck
    \/ GetReturn
    \/ \E line \in Lines : ReaderReceive(line)
    \/ ReaderEof
    \/ \E r \in 1..MaxGets : ReaderWriteBuffer(r)
    \/ \E r \in 1..MaxGets : ReaderWriteFlag(r)

SpecTimed == InitTimed /\ [][NextTimed]_vars

(* ---------------------------------------------------------------------- *)
(* The command line (src/src/ui_cli.py, main)                              *)
(* ---------------------------------------------------------------------- *)
\* main up to the loop: Game(target=..., lives=args.lives, masking_mode=...)
\* on a line of the data file, the alphabet left at its default
InitCli ==
    /\ Init
    /\ ctor.target.present /\ ctor.target.text # <<>>
    /\ ctor.lives.present
    /\ ctor.valid_chars = <<"a", "b">>

\* main, `while not game.is_finished():` evaluated for the first time: the
\* attribute lookup raises AttributeError and main ends with the traceback,
\* before timed.get, game.make_guess or any report runs
CliLoopTest ==
    /\ cli_pc = "start"
    /\ CallIsFinished
    /\ cli_pc' = IF query'.raised THEN "AttributeError" ELSE "round"

NextCli == CliLoopTest

SpecCli == InitCli /\ [][NextCli]_vars

\* main, the body of the loop as a session: `result = game.make_guess(guess)`
\* is reached only while no earlier result had won or lost set, because main
\* returns after such a result; at most MaxIdleCalls of the calls are
\* classified invalid or repeat
SessionGuess(gs) ==
    /\ ~(result.won \/ result.lost)
    /\ Apply(gs)
    /\ Record(gs)
    /\ calls' - timeouts' - classified' <= MaxIdleCalls
    /\ UNCHANGED <<twin, query, cli_pc, timed_vars>>

\* a call of the session that changes the lives or the guessed set
SessionProgress ==
    \E gs \in Guesses :
        SessionGuess(gs) /\ (lives' # lives \/ guessed' # guessed)

NextSession == \E gs \in Guesses : SessionGuess(gs)

\* main, `Game(target=target, lives=args.lives, masking_mode=masking)`: the
\* lives are always given
InitSession ==
    /\ Init
    /\ ctor.lives.present

\* timed.get always returns, a line or None, so the loop keeps calling
\* make_guess; the player does not answer with invalid or repeated guesses
\* forever
SpecSession ==
    InitSession /\ [][NextSession]_vars /\ WF_vars(SessionProgress)

(* ---------------------------------------------------------------------- *)
(* Properties                                                              *)
(* ---------------------------------------------------------------------- *)
Called == calls > 0

\* the normalized text of the last guess, when one was present
LastG == Normalize(guess.text)

\* the last call was given a single character of the valid alphabet
LastValid == Called /\ guess.present /\ ~IsInvalid(LastG, valid_chars)

\* lives, mask and guessed set are as they were before the last call
StateUntouched ==
    /\ lives = prev.lives
    /\ reveal_state = prev.reveal
    /\ guessed = prev.guessed

\* the game was won or lost before the last call
PrevTerminal == prev.lives <= 0 \/ IsWon(target, prev.reveal)

\* C1: in every reachable state the mask is as long as the normalized target.
C1_MaskLength == Len(reveal_state) = Len(target)

C1_Witness ==
    /\ Called /\ result.outcome = "correct"
    /\ Len(target) = MaxTargetLen
    /\ \E i \in 1..Len(target) : ~IsAlpha(target[i])
    /\ Len(reveal_state) = Len(target)

C3_LivesNonIncreasing == Called => lives <= prev.lives

C3_Witness ==
    /\ calls = MaxCalls
    /\ result.outcome = "correct" /\ lives = prev.lives
    /\ lives < MaxLives

\* C4: remaining lives, in the state and in the returned GuessResult, is
\* never negative for a game constructed with lives >= 0.
C4_LivesFloorZero == lives >= 0 /\ result.remaining_lives >= 0

\* C5: a call made on a game that is already won or lost leaves remaining
\* lives unchanged.
C5_TerminalLivesFrozen == (Called /\ PrevTerminal) => lives = prev.lives

\* C6: a valid letter submitted for the first time is classified correct or
\* incorrect; submitted again it is classified repeat and lives, mask and
\* guessed set stay as they were.
C6_RepeatIdempotent ==
    LastValid =>
        IF LastG[1] \in prev.submitted
        THEN result.outcome = "repeat" /\ StateUntouched
        ELSE result.outcome \in {"correct", "incorrect"}

C6_Witness ==
    /\ LastValid /\ LastG[1] \in prev.submitted
    /\ result.outcome = "repeat" /\ StateUntouched
    /\ calls = MaxCalls

\* C7: a guess whose trimmed, lowercased text is the word quit gets outcome
\* quit and leaves lives, mask and guessed set unchanged.
C7_QuitOutcome ==
    (Called /\ guess.present /\ LastG = <<"q", "u", "i", "t">>) =>
        result.outcome = "quit" /\ StateUntouched

\* C8: a call with absent input returns timeout, costs exactly one life,
\* leaves mask and guessed set unchanged, and reports lost exactly when the
\* lives left are <= 0.
C8_Timeout ==
    (Called /\ ~guess.present) =>
        /\ result.outcome = "timeout"
        /\ lives = prev.lives - 1
        /\ result.remaining_lives = lives
        /\ reveal_state = prev.reveal
        /\ guessed = prev.guessed
        /\ result.lost = (lives <= 0)

C8_Witness ==
    /\ Called /\ ~guess.present
    /\ result.outcome = "timeout" /\ lives = 0 /\ prev.lives = 1
    /\ result.lost /\ ~result.won

C10_CorrectRevealsAll ==
    (LastValid /\ IsAlpha(LastG[1]) /\ LastG[1] \notin prev.guessed
       /\ \E i \in 1..Len(target) : target[i] = LastG[1]) =>
        /\ result.outcome = "correct"
        /\ lives = prev.lives
        /\ Len(reveal_state) = Len(prev.reveal)
        /\ \A i \in 1..Len(target) :
              IF target[i] = LastG[1]
              THEN reveal_state[i] = LastG[1]
              ELSE reveal_state[i] = prev.reveal[i]

C10_Witness ==
    /\ LastValid /\ result.outcome = "correct"
    /\ Cardinality({i \in 1..Len(target) : target[i] = LastG[1]}) >= 2
    /\ IsAlpha(LastG[1])
    /\ \A i \in 1..Len(target) : reveal_state[i] = LastG[1]

\* the six outcome labels of GuessResult
Outcomes == {"correct", "incorrect", "timeout", "repeat", "invalid", "quit"}

\* the last guess found no position of the target to reveal
LastRevealedNothing ==
    ~\E i \in 1..Len(target) :
        target[i] = LastG[1] /\ prev.reveal[i] = Placeholder

\* C11: a valid, not yet guessed character that reveals no position is
\* classified incorrect, costs exactly one life, leaves the mask unchanged
\* and joins the guessed set.
C11_IncorrectCostsLife ==
    (LastValid /\ LastG[1] \notin prev.guessed /\ LastRevealedNothing) =>
        /\ result.outcome = "incorrect"
        /\ lives = prev.lives - 1
        /\ reveal_state = prev.reveal
        /\ guessed = prev.guessed \cup {LastG[1]}

C11_Witness ==
    /\ LastValid /\ LastG[1] \notin prev.guessed /\ LastRevealedNothing
    /\ result.outcome = "incorrect" /\ lives = prev.lives - 1
    /\ prev.guessed # {} /\ prev.reveal # Mask(target)
    /\ lives > 0

\* C13: every make_guess call, whatever its input and whether or not the
\* game is finished, returns a result whose outcome is one of the six labels.
C13_ClosedOutcomes == Called => result.outcome \in Outcomes

C13_Witness ==
    /\ Called /\ IsWon(target, prev.reveal) /\ prev.lives <= 0
    /\ LastValid /\ result.outcome = "incorrect"

\* C14: the returned GuessResult describes the state after the call: the
\* current mask, the current lives, won iff no alphabetic position of the
\* target shows the placeholder, lost iff lives <= 0.
C14_ResultIsCurrentState ==
    Called =>
        /\ result.revealed = reveal_state
        /\ result.remaining_lives = lives
        /\ result.won =
              (\A i \in 1..Len(target) :
                  IsAlpha(target[i]) => reveal_state[i] # Placeholder)
        /\ result.lost = (lives <= 0)

C14_Witness ==
    /\ Called /\ result.won /\ prev.lives > 0
    /\ ~IsWon(target, prev.reveal)
    /\ \E i \in 1..Len(target) : target[i] = Placeholder
    /\ result.revealed = reveal_state

C17_EmptyTargetRejected ==
    /\ (~ctor.target.present \/ ctor.target.text = <<>>) =>
          error = "ValueError" /\ calls = 0 /\ result = NoResult
    /\ error = "none" => Len(target) >= 1 /\ Len(target_raw) >= 1

C17_Witness ==
    /\ error = "ValueError" /\ ctor.target.present /\ ctor.target.text = <<>>
    /\ calls = 0

\* the second object is in the state of the first and returned the same result
TwinAgrees ==
    /\ twin.error = error
    /\ twin.lives = lives
    /\ twin.guessed = guessed
    /\ twin.reveal_state = reveal_state
    /\ twin.result = result

\* C12: is_finished() returns, without failing, true iff the game is won or
\* lost.
C12_IsFinished ==
    query.called =>
        /\ ~query.raised
        /\ query.value = (IsWon(target, reveal_state) \/ lives <= 0)

\* C15: guesses differing only in case or surrounding whitespace give the
\* same outcome and the same lives, mask and guessed set from the same state,
\* and games whose targets differ only in case behave identically.
C15_CaseAndSpaceInsensitive ==
    twin.kind = "case" => TwinAgrees

C15_Witness ==
    /\ twin.kind = "case" /\ twin.target_raw # target_raw /\ twin.differed
    /\ calls = MaxPairCalls /\ result.outcome = "correct" /\ result.won
    /\ TwinAgrees

Returned == gets > 0 /\ get_pc = "idle"

\* C19: get returns the line a reader received before the countdown ended,
\* and returns None only if no line was received before the final check.
C19_NoneIffNoInput ==
    Returned =>
        /\ heard.countdown.present => ret = heard.countdown
        /\ ~ret.present => ~heard.deadline

\* C20: the reader of a call that already returned never writes the buffer
\* or the received flag while a later call is running, and a call returns
\* only what its own reader received.
C20_StaleReaderHarmless ==
    /\ ~stale_wrote
    /\ (Returned /\ ret.present) => readers[gets].val = ret

\* the last call was given exactly one character, a space or a punctuation
\* mark
LastSingleNonAlpha ==
    Called /\ guess.present /\ Len(guess.text) = 1 /\ ~IsAlpha(guess.text[1])

\* C21 as stated: a guess that is a single space or punctuation character is
\* classified invalid when the character is not in the valid alphabet, and is
\* not classified invalid when it is.
C21_NonAlphaByAlphabet ==
    LastSingleNonAlpha =>
        IF guess.text[1] \in valid_chars
        THEN result.outcome # "invalid"
        ELSE result.outcome = "invalid" /\ StateUntouched

\* C21 as amended: a single punctuation character is classified invalid
\* exactly when it is not in the valid alphabet, and otherwise joins the
\* guessed set as a letter guess does; a single space is classified invalid
\* whether or not the alphabet holds it.
C21_PunctuationByAlphabet ==
    LastSingleNonAlpha =>
        IF guess.text[1] \in valid_chars \ Whitespace
        THEN /\ result.outcome \in {"correct", "incorrect", "repeat"}
             /\ guess.text[1] \in guessed
        ELSE result.outcome = "invalid" /\ StateUntouched

C21_Witness ==
    /\ LastSingleNonAlpha /\ guess.text = <<"!">>
    /\ {"!", " "} \subseteq valid_chars
    /\ result.outcome = "incorrect" /\ "!" \in guessed \ prev.guessed
    /\ \E i \in 1..Len(target) : target[i] = "!"

\* the last call is the one on which won turned from false to true
LastCallWon == Called /\ ~IsWon(target, prev.reveal) /\ result.won

\* C22: a call that decrements lives has outcome incorrect or timeout and
\* leaves the mask unchanged, so it is never the call on which won turns
\* true; the call on which won turns true has outcome correct and leaves
\* lives unchanged.
C22_LifeLossNeverWins ==
    Called =>
        /\ lives < prev.lives =>
              /\ result.outcome \in {"incorrect", "timeout"}
              /\ reveal_state = prev.reveal
              /\ ~LastCallWon
        /\ result.outcome \in {"incorrect", "timeout"} =>
              lives = prev.lives - 1 /\ reveal_state = prev.reveal
        /\ LastCallWon => result.outcome = "correct" /\ lives = prev.lives

C22_Witness ==
    /\ LastCallWon /\ result.outcome = "correct" /\ lives = prev.lives
    /\ timeouts > 0 /\ missed # {}
    /\ lives > 0

\* C23 as stated: no position of the target holding a guessed character
\* shows the placeholder, and every mask position is the placeholder or the
\* target's own character.
C23_GuessedNotPlaceholder ==
    /\ \A i \in 1..Len(target) :
          target[i] \in guessed => reveal_state[i] # Placeholder
    /\ \A i \in 1..Len(target) : reveal_state[i] \in {Placeholder, target[i]}

\* C23 as amended: every position of the target holding a guessed character
\* shows the target's own character (which is the placeholder symbol only
\* where the target itself has an underscore), and every mask position is
\* the placeholder or the target's own character.
C23_GuessedApplied ==
    /\ Len(reveal_state) = Len(target)
    /\ \A i \in 1..Len(target) :
          target[i] \in guessed => reveal_state[i] = target[i]
    /\ \A i \in 1..Len(target) : reveal_state[i] \in {Placeholder, target[i]}

C23_Witness ==
    /\ guessed = {"a", "_"} /\ target = <<"a", "_">>
    /\ reveal_state = target
    /\ calls = MaxCalls

\* C24: the game loop checks is_finished before each round and goes on to a
\* round only when the game is not finished; it ends the session by one of
\* its three reports, and calls make_guess only in a round.
C24_LoopStopsWhenFinished ==
    /\ cli_pc \in {"start", "round", "quit", "won", "lost"}
    /\ cli_pc # "start" => query.called /\ ~query.raised
    /\ cli_pc = "round" => ~(IsWon(target, reveal_state) \/ IsLost(lives))

\* C25: finished games stay finished, so a caller that stops at the first
\* won or lost result (and makes no call on a game finished at construction)
\* makes every call from an unfinished state; no result of such a call has
\* won and lost both true.
C25_WonLostExclusive ==
    /\ (Called /\ PrevTerminal) => (IsWon(target, reveal_state) \/ lives <= 0)
    /\ (Called /\ ~PrevTerminal) => ~(result.won /\ result.lost)

\* a game built with one life and a letter to find was won by calls that cost
\* nothing, and the timeout submitted after the win returned won and lost
C25_Witness ==
    /\ ctor.lives = SomeLives(1)
    /\ \E i \in 1..Len(target) : IsAlpha(target[i])
    /\ guessed # {} /\ prev.lives = 1 /\ IsWon(target, prev.reveal)
    /\ Called /\ ~guess.present
    /\ result.won /\ result.lost

\* the lives Game(...) was configured with
InitialLives == IF ctor.lives.present THEN ctor.lives.value ELSE 6

\* C26: lives equals the configured lives minus the timeout calls minus the
\* guessed characters that revealed nothing when first guessed; invalid,
\* repeat and correct calls cost nothing; the guessed set is a subset of the
\* valid alphabet.
C26_LivesAccounted ==
    error = "none" =>
        /\ lives = InitialLives - timeouts - Cardinality(missed)
        /\ missed \subseteq guessed
        /\ guessed \subseteq valid_chars
        /\ (Called /\ result.outcome \in {"invalid", "repeat", "correct"}) =>
              lives = prev.lives

C26_Witness ==
    /\ calls = MaxCalls /\ timeouts = 1 /\ Cardinality(missed) = 1
    /\ guessed \ missed # {}
    /\ lives = InitialLives - 2 /\ lives < 0

====
